---- MODULE Spec2Model ----
(***************************************************************************)
(* A model of src/model.py: the mask helpers, PositionalEncoding, the      *)
(* attention / layer / stack constructors and their forward methods.       *)
(*                                                                         *)
(* Tensors are records [shape, dev, data]: shape is the tuple of sizes,    *)
(* dev the device the tensor lives on, data a function from 0-based index  *)
(* tuples to element values.  A Python call is an operator returning an    *)
(* outcome record: kind "ok" with its value, or kind "raise" with the      *)
(* exception type and the source line that raises.                         *)
(***************************************************************************)
EXTENDS Integers, Sequences, FiniteSets, TLC

VARIABLES device, call, outcome, xafter, pemod, objs, trace, ncalls

vars == <<device, call, outcome, xafter, pemod, objs, trace, ncalls>>

\* ------------------------------------------------------------------ bounds
MaxBatch == 2
MaxLen == 3
MaxDModel == 4
MaxHeads == 4
MaxTableLen == 3
MaxLayers == 2
MaxVocab == 2
MaxCalls == 2

\* Token ids fed to the helpers: 0 is the padding id, 1 an ordinary token.
TokenIds == {0, 1}

\* ------------------------------------------------------------ tensor basics
RECURSIVE Idx(_)
Idx(shape) ==
    IF shape = <<>> THEN {<<>>}
    ELSE {<<i>> \o r : i \in 0 .. (Head(shape) - 1), r \in Idx(Tail(shape))}

Tensor(shape, dev, f(_)) ==
    [shape |-> shape, dev |-> dev, data |-> [i \in Idx(shape) |-> f(i)]]

NoTensor == [shape |-> <<>>, dev |-> "none", data |-> [i \in {<<>>} |-> 0]]

Ok(v) == [kind |-> "ok", exc |-> "", line |-> 0, val |-> v]

Raise(e, l) == [kind |-> "raise", exc |-> e, line |-> l, val |-> NoTensor]

Max2(a, b) == IF a >= b THEN a ELSE b

\* Remove / insert position k (1-based) of a tuple.
DropAt(s, k) == SubSeq(s, 1, k - 1) \o SubSeq(s, k + 1, Len(s))

InsertAt(s, k, v) == SubSeq(s, 1, k - 1) \o <<v>> \o SubSeq(s, k, Len(s))

SwapAt(s, a, b) ==
    [k \in 1 .. Len(s) |-> IF k = a THEN s[b] ELSE IF k = b THEN s[a] ELSE s[k]]

\* torch.ones(n, m): created on the CPU.
torch_ones(n, m) == Tensor(<<n, m>>, "cpu", LAMBDA i : 1)

\* torch.triu of a matrix: keeps the entries with column >= row.
torch_triu(t) ==
    Tensor(t.shape, t.dev, LAMBDA i : IF i[2] >= i[1] THEN t.data[i] ELSE 0)

\* Tensor.transpose(d0, d1), dims 0-based.
transpose(t, d0, d1) ==
    Tensor(SwapAt(t.shape, d0 + 1, d1 + 1), t.dev,
           LAMBDA i : t.data[SwapAt(i, d0 + 1, d1 + 1)])

\* Tensor.type(dtype=torch.uint8)
type_uint8(t) == Tensor(t.shape, t.dev, LAMBDA i : t.data[i] % 256)

\* Tensor.to(dev): same values, placed on dev.
to(t, dev) == [t EXCEPT !.dev = dev]

\* (t == c) * 1 : elementwise comparison, then bool -> int.
eq_scalar(t, c) == Tensor(t.shape, t.dev, LAMBDA i : t.data[i] = c)

mul_one(t) == Tensor(t.shape, t.dev, LAMBDA i : IF t.data[i] THEN 1 ELSE 0)

\* Tensor.unsqueeze(dim), dim 0-based.
unsqueeze(t, dim) ==
    Tensor(InsertAt(t.shape, dim + 1, 1), t.dev,
           LAMBDA i : t.data[DropAt(i, dim + 1)])

\* Broadcasting of two shapes (right-aligned); <<>> when they do not broadcast.
PadShape(s, n) == [k \in 1 .. n |-> IF k <= n - Len(s) THEN 1 ELSE s[k - (n - Len(s))]]

Broadcastable(s1, s2) ==
    LET n == Max2(Len(s1), Len(s2))
        a == PadShape(s1, n)
        b == PadShape(s2, n)
    IN \A k \in 1 .. n : a[k] = b[k] \/ a[k] = 1 \/ b[k] = 1

BroadcastShape(s1, s2) ==
    LET n == Max2(Len(s1), Len(s2))
        a == PadShape(s1, n)
        b == PadShape(s2, n)
    IN [k \in 1 .. n |-> IF a[k] = 1 THEN b[k] ELSE a[k]]

\* The index of t read for index i of the broadcast result.
BIndex(t, i) ==
    LET off == Len(i) - Len(t.shape)
    IN [k \in 1 .. Len(t.shape) |-> IF t.shape[k] = 1 THEN 0 ELSE i[k + off]]

\* torch.max(a, b): elementwise maximum with broadcasting; both operands
\* must live on one device.
torch_max(a, b, line) ==
    IF a.dev # b.dev THEN Raise("RuntimeError", line)
    ELSE IF ~Broadcastable(a.shape, b.shape) THEN Raise("RuntimeError", line)
    ELSE Ok(Tensor(BroadcastShape(a.shape, b.shape), a.dev,
                   LAMBDA i : Max2(a.data[BIndex(a, i)], b.data[BIndex(b, i)])))

\* ------------------------------------------------------------------- masks
PaddingMaskInverted(x) ==
    unsqueeze(unsqueeze(mul_one(Tensor(x.shape, x.dev, LAMBDA i : x.data[i] # 0)), 1), 1)

\* create_padding_mask(x): returns the mask and leaves x as it was (no
\* in-place operation); xout is the caller's tensor after the call.
PaddingMaskValue(x) == unsqueeze(unsqueeze(mul_one(eq_scalar(x, 0)), 1), 1)

create_padding_mask(x) == [ret |-> Ok(PaddingMaskValue(x)), xout |-> x]

LookAheadNoTranspose(seq_len, dev) ==
    unsqueeze(
        mul_one(eq_scalar(to(type_uint8(torch_triu(torch_ones(seq_len, seq_len))), dev),
                          0)), 0)

LookAheadBase(seq_len, dev) ==
    unsqueeze(
        mul_one(eq_scalar(
            to(type_uint8(transpose(torch_triu(torch_ones(seq_len, seq_len)), 0, 1)),
               dev), 0)), 0)

create_look_ahead_mask(x, dev) ==
    LET seq_len == x.shape[2]
        mask == LookAheadBase(seq_len, dev)
        pad == create_padding_mask(x)
    IN [ret |-> torch_max(mask, pad.ret.val, 103), xout |-> pad.xout]

\* ------------------------------------------------------ PositionalEncoding
\* A Python value handed to a torch function: an int or a Tensor.
PyInt(n) == [py |-> "int", v |-> n]

\* torch.sqrt(arg) accepts a Tensor only; a Python int raises TypeError.
torch_sqrt(arg, line) ==
    IF arg.py = "Tensor" THEN Ok(NoTensor) ELSE Raise("TypeError", line)

CeilHalf(d) == (d + 1) \div 2

FloorHalf(d) == d \div 2

\* Entry (pos, col) of the sinusoidal table: sin of position * div_term[k] in
\* the even columns (line 116), cos in the odd ones (line 117), k = col div 2.
PEEntry(pos, col) ==
    <<IF col % 2 = 0 THEN "sin" ELSE "cos", pos, col \div 2>>

\* pe[:, 1::2] = cos(position * div_term) assigns ceil(d/2) value columns to
\* floor(d/2) table columns: the value must broadcast to the slice.
SliceAssignOk(value_cols, slice_cols) == value_cols = slice_cols \/ value_cols = 1

NoPE == [d_model |-> PyInt(0), pe |-> NoTensor]

\* PositionalEncoding.__init__(d_model, dropout, max_len), on device dev.
PositionalEncoding_init(d_model, max_len, dev) ==
    IF ~SliceAssignOk(CeilHalf(d_model), FloorHalf(d_model))
    THEN [ret |-> Raise("RuntimeError", 117), self |-> NoPE]
    ELSE [ret |-> Ok(NoTensor),
          self |-> [d_model |-> PyInt(d_model),
                    pe |-> Tensor(<<1, max_len, d_model>>, dev,
                                  LAMBDA i : <<PEEntry(i[2], i[3])>>)]]

\* An embedding element: its identity, whether it has been scaled by
\* sqrt(d_model), and the table entries added to it.
Elem(i) == [id |-> i, scaled |-> FALSE, added |-> <<>>]

\* x *= s
imul_scalar(x) == [x EXCEPT !.data = [i \in DOMAIN x.data |-> [x.data[i] EXCEPT !.scaled = TRUE]]]

\* x += t, in place: t must live with x and broadcast to the shape of x.
iadd(x, t, line) ==
    IF x.dev # t.dev THEN Raise("RuntimeError", line)
    ELSE IF ~(Broadcastable(x.shape, t.shape) /\ BroadcastShape(x.shape, t.shape) = x.shape)
    THEN Raise("RuntimeError", line)
    ELSE Ok([x EXCEPT !.data =
                [i \in DOMAIN x.data |->
                    [x.data[i] EXCEPT !.added = @ \o t.data[BIndex(t, i)]]]])

PositionalEncoding_forward_scales_table(self, x) ==
    [ret |-> Raise("TypeError", 122), xout |-> x,
     self |-> [self EXCEPT !.pe.data = [i \in DOMAIN self.pe.data |-> <<"scaled">> \o self.pe.data[i]]]]

\* PositionalEncoding.forward(x): ret is the call's outcome, xout the caller's
\* tensor after the call (lines 122-123 work in place), self the module after.
PositionalEncoding_forward(self, x) ==
    LET s == torch_sqrt(self.d_model, 122)
        x1 == imul_scalar(x)
        x2 == iadd(x1, self.pe, 123)
    IN IF s.kind = "raise" THEN [ret |-> s, xout |-> x, self |-> self]
       ELSE IF x2.kind = "raise" THEN [ret |-> x2, xout |-> x1, self |-> self]
       ELSE [ret |-> x2, xout |-> x2.val, self |-> self]

\* ------------------------------------------------------------ constructors
\* A Python object is the record of the attributes assigned to it so far; a
\* constructor returns ret (its outcome), self (the object, complete or as
\* far as __init__ got) and made (every object allocated on the way, each
\* with its class).
HasAttr(self, a) == a \in DOMAIN self

Obj(cls, self) == [cls |-> cls, self |-> self]

Built(self, made) == [ret |-> Ok(NoTensor), self |-> self, made |-> made]

Failed(ret, self, made) == [ret |-> ret, self |-> self, made |-> made]

Linear(i, o) == [cls |-> "Linear", inf |-> i, outf |-> o]

LayerNorm(d) == [cls |-> "LayerNorm", d |-> d]

Dropout == [cls |-> "Dropout"]

\* PositionalEncoding's default max_len.
DefaultMaxLen == 50

\* FeedForward's default d_ff.
DefaultDff == 2048

\* MultiHeadAttention.__init__(d_model, num_heads)
MultiHeadAttention_init(d_model, num_heads) ==
    LET s1 == [h |-> num_heads, d_model |-> d_model]
    IN IF ~HasAttr(s1, "num_heads")
       THEN Failed(Raise("AttributeError", 52), s1, <<Obj("MultiHeadAttention", s1)>>)
       ELSE IF d_model % s1.num_heads # 0
       THEN Failed(Raise("AssertionError", 52), s1, <<Obj("MultiHeadAttention", s1)>>)
       ELSE LET s2 == [h |-> num_heads, d_model |-> d_model,
                       d_h |-> d_model \div s1.num_heads,
                       q_dense |-> Linear(d_model, d_model),
                       k_dense |-> Linear(d_model, d_model),
                       v_dense |-> Linear(d_model, d_model),
                       out |-> Linear(d_model, d_model)]
            IN Built(s2, <<Obj("MultiHeadAttention", s2)>>)

\* FeedForward.__init__(d_model)
FeedForward_init(d_model) ==
    [linear_1 |-> Linear(d_model, DefaultDff), dropout |-> Dropout,
     linear2 |-> Linear(DefaultDff, d_model)]

\* EncoderLayer.__init__(d_model, heads)
EncoderLayer_init(d_model, heads) ==
    LET s1 == [layernorm1 |-> LayerNorm(d_model), layernorm2 |-> LayerNorm(d_model)]
        a == MultiHeadAttention_init(heads, d_model)
    IN IF a.ret.kind = "raise"
       THEN Failed(a.ret, s1, a.made \o <<Obj("EncoderLayer", s1)>>)
       ELSE LET s2 == [layernorm1 |-> s1.layernorm1, layernorm2 |-> s1.layernorm2,
                       attn |-> a.self, ff |-> FeedForward_init(d_model),
                       dropout_1 |-> Dropout, dropout_2 |-> Dropout]
            IN Built(s2, a.made \o <<Obj("EncoderLayer", s2)>>)

\* DecoderLayer.__init__(d_model, heads)
DecoderLayer_init(d_model, heads) ==
    LET s1 == [norm1 |-> LayerNorm(d_model), norm2 |-> LayerNorm(d_model),
               norm3 |-> LayerNorm(d_model), dropout_1 |-> Dropout,
               dropout_2 |-> Dropout, dropout_3 |-> Dropout]
        a1 == MultiHeadAttention_init(heads, d_model)
        a2 == MultiHeadAttention_init(heads, d_model)
    IN IF a1.ret.kind = "raise"
       THEN Failed(a1.ret, s1, a1.made \o <<Obj("DecoderLayer", s1)>>)
       ELSE IF a2.ret.kind = "raise"
       THEN Failed(a2.ret, s1, a1.made \o a2.made \o <<Obj("DecoderLayer", s1)>>)
       ELSE LET s2 == [norm1 |-> s1.norm1, norm2 |-> s1.norm2, norm3 |-> s1.norm3,
                       dropout_1 |-> Dropout, dropout_2 |-> Dropout,
                       dropout_3 |-> Dropout, attn_1 |-> a1.self,
                       attn_2 |-> a2.self, ff |-> FeedForward_init(d_model)]
            IN Built(s2, a1.made \o a2.made \o <<Obj("DecoderLayer", s2)>>)

\* get_clones(module, N): N deep copies of the module.
get_clones(module, N) == [i \in 1 .. N |-> module]

\* Encoder.__init__ and Decoder.__init__ differ in the layer class only:
\* layer is the outcome of the layer constructor called at line 203 / 220.
\* In made, the stack object lists its positional encoding by class name.
Stack_init(cls, layer, vocab_size, d_model, N, dev) ==
    LET p == PositionalEncoding_init(d_model, DefaultMaxLen, dev)
        s1 == [N |-> N, embed |-> [cls |-> "Embedding", vocab |-> vocab_size, d |-> d_model]]
        s2 == [N |-> N, embed |-> s1.embed, pe |-> p.self]
        seen == [N |-> N, embed |-> s1.embed, pe |-> "PositionalEncoding"]
    IN IF p.ret.kind = "raise" THEN Failed(p.ret, s1, <<Obj(cls, s1)>>)
       ELSE IF layer.ret.kind = "raise"
       THEN Failed(layer.ret, s2, layer.made \o <<Obj(cls, seen)>>)
       ELSE LET s3 == [N |-> N, embed |-> s1.embed, pe |-> p.self,
                       layers |-> get_clones(layer.self, N),
                       norm |-> LayerNorm(d_model)]
            IN Built(s3, layer.made \o <<Obj(cls, seen)>>)

\* Encoder.__init__(vocab_size, d_model, N, heads)
Encoder_init(vocab_size, d_model, N, heads, dev) ==
    Stack_init("Encoder", EncoderLayer_init(d_model, heads), vocab_size, d_model, N, dev)

\* Decoder.__init__(vocab_size, d_model, N, heads)
Decoder_init(vocab_size, d_model, N, heads, dev) ==
    Stack_init("Decoder", DecoderLayer_init(d_model, heads), vocab_size, d_model, N, dev)

\* Transformer.__init__(vocab_size, d_model, num_layers, heads)
Transformer_init(vocab_size, d_model, num_layers, heads, dev) ==
    LET e == Encoder_init(vocab_size, d_model, num_layers, heads, dev)
        d == Decoder_init(vocab_size, d_model, num_layers, heads, dev)
        s0 == [training |-> TRUE]   \* after super().__init__()
    IN IF e.ret.kind = "raise"
       THEN Failed(e.ret, s0, e.made \o <<Obj("Transformer", s0)>>)
       ELSE IF d.ret.kind = "raise"
       THEN Failed(d.ret, s0, e.made \o d.made \o <<Obj("Transformer", s0)>>)
       ELSE LET s1 == [encoder |-> e.self, decoder |-> d.self,
                       out |-> Linear(d_model, vocab_size)]
            IN Built(s1, e.made \o d.made \o <<Obj("Transformer", s0)>>)

\* ---------------------------------------------------------------- forward
\* An activation is [shape, dev, val]: val is a formal sum, the sequence of
\* the terms added up (<<>> is the zero tensor); a term is an operation
\* applied to a formal sum.  A forward call returns FR(ret, log): its outcome
\* and the events (sub-calls) it made, in order.
Term(op, arg) == [op |-> op, arg |-> arg]

Act(shape, dev, val) == [shape |-> shape, dev |-> dev, val |-> val]

Zero == <<>>

Event(ev, a, b) == [ev |-> ev, a |-> a, b |-> b]

FR(ret, log) == [ret |-> ret, log |-> log]

Last(s) == s[Len(s)]

RECURSIVE Prod(_)
Prod(s) == IF s = <<>> THEN 1 ELSE Head(s) * Prod(Tail(s))

\* The names bound at module level when a method runs: the imports, device
\* and the definitions of lines 1-243.  The script at lines 248-257 stops at
\* its first statement (np is not imported), so it binds nothing; N is a
\* parameter of the constructors and an attribute, never a module name.
Globals ==
    {"torch", "nn", "math", "F", "config", "copy", "device", "get_clones",
     "scaled_dot_product_attention", "MultiHeadAttention", "create_padding_mask",
     "create_look_ahead_mask", "PositionalEncoding", "FeedForward", "Embedder",
     "EncoderLayer", "DecoderLayer", "Encoder", "Decoder", "Transformer"}

\* nn.Linear applied to x: the last dimension must be in_features.
Linear_forward(lin, x, line) ==
    IF Last(x.shape) # lin.inf THEN Raise("RuntimeError", line)
    ELSE Ok(Act([x.shape EXCEPT ![Len(x.shape)] = lin.outf], x.dev,
                IF HasAttr(lin, "zero") \/ x.val = Zero THEN Zero
                ELSE <<Term("linear", x.val)>>))

\* nn.LayerNorm applied to x.
LayerNorm_forward(ln, x, line) ==
    IF Last(x.shape) # ln.d THEN Raise("RuntimeError", line)
    ELSE Ok(Act(x.shape, x.dev, <<Term("norm", x.val)>>))

\* nn.Dropout: the zero tensor stays zero; otherwise the identity in
\* evaluation mode and a random rescaled selection in training mode.
Dropout_forward(x, training) ==
    IF x.val = Zero \/ ~training THEN x
    ELSE Act(x.shape, x.dev, <<Term("dropout", x.val)>>)

\* x + y, out of place.
add(x, y, line) ==
    IF x.dev # y.dev \/ ~Broadcastable(x.shape, y.shape) THEN Raise("RuntimeError", line)
    ELSE Ok(Act(BroadcastShape(x.shape, y.shape), x.dev, x.val \o y.val))

\* Tensor.view(shape) with one -1 at position k (1-based).
view(x, shape, k, line) ==
    LET rest == Prod(DropAt(shape, k))
    IN IF rest = 0 \/ Prod(x.shape) % rest # 0 THEN Raise("RuntimeError", line)
       ELSE Ok(Act([shape EXCEPT ![k] = Prod(x.shape) \div rest], x.dev, x.val))

\* scaled_dot_product_attention(query, key, value, mask); mask.shape = <<>>
\* stands for mask = None.  The logits are divided by the square root of the
\* query's trailing dimension (lines 31-33), logged with the query's axis 1.
scaled_dot_product_attention(query, key, value, mask) ==
    LET nq == Len(query.shape)
        nk == Len(key.shape)
        lead == BroadcastShape(SubSeq(query.shape, 1, nq - 2), SubSeq(key.shape, 1, nk - 2))
        logits == lead \o <<query.shape[nq - 1], key.shape[nk - 1]>>
        ev == <<Event("sdpa", query.shape[nq], query.shape[2])>>
    IN IF query.shape[nq] # key.shape[nk]
          \/ ~Broadcastable(SubSeq(query.shape, 1, nq - 2), SubSeq(key.shape, 1, nk - 2))
       THEN FR(Raise("RuntimeError", 29), ev)
       ELSE IF mask.shape # <<>>
               /\ (mask.dev # query.dev
                   \/ ~Broadcastable(logits, mask.shape)
                   \/ BroadcastShape(logits, mask.shape) # logits)
       THEN FR(Raise("RuntimeError", 36), ev)
       ELSE IF key.shape[nk - 1] # value.shape[Len(value.shape) - 1]
       THEN FR(Raise("RuntimeError", 40), ev)
       ELSE FR(Ok(Act(lead \o <<query.shape[nq - 1], Last(value.shape)>>, query.dev,
                      IF value.val = Zero THEN Zero
                      ELSE <<Term("attention", query.val \o key.val \o value.val)>>)),
               ev)

\* Sequencing of calls: an exception raised by a call leaves the caller at
\* once; otherwise the caller goes on with the value returned.  Then is for
\* plain outcomes, ThenF for forward results, whose event logs add up.
Then(r, rest(_)) == IF r.kind = "raise" THEN r ELSE rest(r.val)

Lift(r) == FR(r, <<>>)

After(log, r) == FR(r.ret, log \o r.log)

ThenF(r, rest(_)) == IF r.ret.kind = "raise" THEN r ELSE After(r.log, rest(r.ret.val))

\* One of the three projections of MultiHeadAttention.forward (lines 68-74):
\* dense, view(bs, -1, h, d_h), transpose(1, 2).
Project(self, lin, t, bs, line) ==
    Then(Linear_forward(lin, t, line), LAMBDA a :
    Then(view(a, <<bs, 0, self.h, self.d_h>>, 2, line), LAMBDA b :
    Ok(Act(SwapAt(b.shape, 2, 3), b.dev, b.val))))

\* MultiHeadAttention.forward(q, k, v, mask)
MultiHeadAttention_forward(self, q, k, v, mask) ==
    ThenF(Lift(Project(self, self.k_dense, k, q.shape[1], 68)), LAMBDA kk :
    ThenF(Lift(Project(self, self.q_dense, q, q.shape[1], 69)), LAMBDA qq :
    ThenF(Lift(Project(self, self.v_dense, v, q.shape[1], 70)), LAMBDA vv :
    ThenF(scaled_dot_product_attention(qq, kk, vv, mask), LAMBDA sc :
    ThenF(Lift(view(Act(SwapAt(sc.shape, 2, 3), sc.dev, sc.val),
                    <<q.shape[1], 0, self.d_model>>, 2, 80)), LAMBDA cc :
    Lift(Linear_forward(self.out, cc, 82)))))))

\* F.relu
relu(a) == Act(a.shape, a.dev, IF a.val = Zero THEN Zero ELSE <<Term("relu", a.val)>>)

\* FeedForward.forward(x)
FeedForward_forward(self, x, training) ==
    Then(Linear_forward(self.linear_1, x, 135), LAMBDA a :
    Linear_forward(self.linear2, Dropout_forward(relu(a), training), 137))

\* self.<name>(x) for a normalization module: the attribute must exist.
CallNorm(self, name, x, line) ==
    IF ~HasAttr(self, name) THEN Lift(Raise("AttributeError", line))
    ELSE Lift(LayerNorm_forward(self[name], x, line))

\* EncoderLayer.forward(x, mask)
EncoderLayer_forward(self, x, mask, training) ==
    ThenF(CallNorm(self, "norm_1", x, 161), LAMBDA n1 :
    ThenF(MultiHeadAttention_forward(self.attn, n1, n1, n1, mask), LAMBDA at :
    ThenF(Lift(add(x, Dropout_forward(at, training), 162)), LAMBDA x1 :
    ThenF(CallNorm(self, "norm_2", x1, 164), LAMBDA x2 :
    ThenF(Lift(FeedForward_forward(self.ff, x2, training)), LAMBDA ff :
    Lift(add(x1, Dropout_forward(ff, training), 165)))))))

\* DecoderLayer.forward(x, encoder_out, src_mask, trg_mask)
DecoderLayer_forward(self, x, encoder_out, src_mask, trg_mask, training) ==
    ThenF(CallNorm(self, "norm_1", x, 187), LAMBDA n1 :
    ThenF(MultiHeadAttention_forward(self.attn_1, n1, n1, n1, trg_mask), LAMBDA a1 :
    ThenF(Lift(add(x, Dropout_forward(a1, training), 188)), LAMBDA x1 :
    ThenF(CallNorm(self, "norm_2", x1, 189), LAMBDA n2 :
    ThenF(MultiHeadAttention_forward(self.attn_2, n2, encoder_out, encoder_out, src_mask),
          LAMBDA a2 :
    ThenF(Lift(add(x1, Dropout_forward(a2, training), 190)), LAMBDA x2 :
    ThenF(CallNorm(self, "norm_3", x2, 192), LAMBDA n3 :
    ThenF(Lift(FeedForward_forward(self.ff, n3, training)), LAMBDA ff :
    Lift(add(x2, Dropout_forward(ff, training), 193))))))))))

\* Embedder.forward(x): every id must index the table.
Embedder_forward(emb, tokens, line) ==
    IF \E i \in DOMAIN tokens.data : tokens.data[i] >= emb.vocab \/ tokens.data[i] < 0
    THEN Raise("IndexError", line)
    ELSE Ok(Tensor(tokens.shape \o <<emb.d>>, tokens.dev, Elem))

\* Lines 207-208 / 224-225: embed, then the positional encoding; the running
\* state that enters the layers is the single term "x".
EmbedAndEncode(self, tokens, line) ==
    ThenF(FR(Embedder_forward(self.embed, tokens, line), <<Event("embed", 0, 0)>>),
          LAMBDA e :
    ThenF(FR(PositionalEncoding_forward(self.pe, e).ret, <<Event("pe", 0, 0)>>),
          LAMBDA p :
    Lift(Ok(Act(p.shape, p.dev, <<Term("x", Zero)>>)))))

\* self.layers[i], i 0-based.
LayerAt(self, i, line) ==
    IF i + 1 > Len(self.layers) THEN Lift(Raise("IndexError", line))
    ELSE FR(Ok(self.layers[i + 1]), <<Event("layer", i, 0)>>)

\* for i in range(n): x = self.layers[i](x, mask), from layer i (0-based) on.
RECURSIVE EncoderLoop(_, _, _, _, _, _)
EncoderLoop(self, i, n, x, mask, training) ==
    IF i >= n THEN Lift(Ok(x))
    ELSE ThenF(LayerAt(self, i, 210), LAMBDA layer :
         ThenF(EncoderLayer_forward(layer, x, mask, training), LAMBDA y :
         EncoderLoop(self, i + 1, n, y, mask, training)))

RECURSIVE DecoderLoop(_, _, _, _, _, _, _, _)
DecoderLoop(self, i, n, x, e_outputs, src_mask, trg_mask, training) ==
    IF i >= n THEN Lift(Ok(x))
    ELSE ThenF(LayerAt(self, i, 227), LAMBDA layer :
         ThenF(DecoderLayer_forward(layer, x, e_outputs, src_mask, trg_mask, training),
               LAMBDA y :
         DecoderLoop(self, i + 1, n, y, e_outputs, src_mask, trg_mask, training)))

\* The module-level name read as the loop bound at line 209.
GlobalN(self) ==
    IF "N" \in Globals THEN Lift(Ok(self.N)) ELSE Lift(Raise("NameError", 209))

\* Encoder.forward(src, mask): loops to the module-level name N.
Encoder_forward(self, src, mask, training) ==
    ThenF(EmbedAndEncode(self, src, 207), LAMBDA x :
    ThenF(GlobalN(self), LAMBDA n :
    ThenF(EncoderLoop(self, 0, n, x, mask, training), LAMBDA y :
    FR(LayerNorm_forward(self.norm, y, 211), <<Event("norm", 0, 0)>>))))

\* Decoder.forward(trg, e_outputs, src_mask, trg_mask): loops to self.N.
Decoder_forward(self, trg, e_outputs, src_mask, trg_mask, training) ==
    ThenF(EmbedAndEncode(self, trg, 224), LAMBDA x :
    ThenF(DecoderLoop(self, 0, self.N, x, e_outputs, src_mask, trg_mask, training),
          LAMBDA y :
    FR(LayerNorm_forward(self.norm, y, 228), <<Event("norm", 0, 0)>>)))

\* Transformer.forward(src, trg, src_mask, trg_mask)
Transformer_forward(self, src, trg, src_mask, trg_mask, training) ==
    ThenF(Encoder_forward(self.encoder, src, src_mask, training), LAMBDA e :
    ThenF(Decoder_forward(self.decoder, trg, e, src_mask, trg_mask, training), LAMBDA d :
    Lift(Linear_forward(self.out, d, 242))))

\* ----------------------------------------------------------------- harness
Devices == {"cpu", "cuda"}

\* Tensors a caller can hold: CUDA tensors exist only where CUDA does.
CallerDevs == IF device = "cuda" THEN {"cpu", "cuda"} ELSE {"cpu"}

TokenBatches ==
    UNION {UNION {{[shape |-> <<b, n>>, dev |-> d, data |-> f] :
                      f \in [Idx(<<b, n>>) -> TokenIds], d \in CallerDevs} :
                  n \in 1 .. MaxLen} : b \in 1 .. MaxBatch}

Embeddings(d) ==
    {Tensor(<<b, n, d>>, dv, Elem) : b \in 1 .. MaxBatch, n \in 1 .. MaxLen, dv \in CallerDevs}

NoCall == [fn |-> "none", x |-> NoTensor]

\* The PositionalEncoding module under test: state "none" before
\* construction, "built" after, with the constructor's arguments and the
\* table as it was when the constructor returned.
NoModule == [state |-> "none", d_model |-> 0, max_len |-> 0, self |-> NoPE, pe0 |-> NoTensor]

Init ==
    /\ device \in Devices
    /\ call = NoCall
    /\ outcome = Ok(NoTensor)
    /\ xafter = NoTensor
    /\ pemod = NoModule
    /\ objs = <<>>
    /\ trace = <<>>
    /\ ncalls = 0

CallPaddingMask ==
    /\ call.fn = "none"
    /\ \E x \in TokenBatches :
           LET r == create_padding_mask(x)
           IN /\ call' = [fn |-> "create_padding_mask", x |-> x]
              /\ outcome' = r.ret
              /\ xafter' = r.xout
              /\ UNCHANGED <<device, pemod, objs, trace, ncalls>>

CallLookAheadMask ==
    /\ call.fn = "none"
    /\ \E x \in TokenBatches :
           LET r == create_look_ahead_mask(x, device)
           IN /\ call' = [fn |-> "create_look_ahead_mask", x |-> x]
              /\ outcome' = r.ret
              /\ xafter' = r.xout
              /\ UNCHANGED <<device, pemod, objs, trace, ncalls>>

\* The caller drops the results of the last call and goes on.
Finish ==
    /\ call.fn # "none"
    /\ call' = NoCall
    /\ outcome' = Ok(NoTensor)
    /\ xafter' = NoTensor
    /\ objs' = <<>>
    /\ trace' = <<>>
    /\ UNCHANGED <<device, pemod, ncalls>>

NewPositionalEncoding ==
    /\ call.fn = "none"
    /\ pemod.state = "none"
    /\ \E d \in 1 .. MaxDModel, m \in 1 .. MaxTableLen :
           LET r == PositionalEncoding_init(d, m, device)
           IN /\ call' = [fn |-> "PositionalEncoding", x |-> NoTensor]
              /\ outcome' = r.ret
              /\ pemod' = IF r.ret.kind = "ok"
                          THEN [state |-> "built", d_model |-> d, max_len |-> m,
                                self |-> r.self, pe0 |-> r.self.pe]
                          ELSE pemod
              /\ UNCHANGED <<device, xafter, objs, trace, ncalls>>

CallPEForward ==
    /\ call.fn = "none"
    /\ pemod.state = "built"
    /\ ncalls < MaxCalls
    /\ \E x \in Embeddings(pemod.d_model) :
           LET r == PositionalEncoding_forward(pemod.self, x)
           IN /\ call' = [fn |-> "PositionalEncoding.forward", x |-> x]
              /\ outcome' = r.ret
              /\ xafter' = r.xout
              /\ pemod' = [pemod EXCEPT !.self = r.self]
              /\ ncalls' = ncalls + 1
              /\ UNCHANGED <<device, objs, trace>>

NextPE == NewPositionalEncoding \/ CallPEForward \/ Finish

SpecPE == Init /\ [][NextPE]_vars

\* -------------------------------------------------------- model scenarios
\* A token batch of shape [b, n] filled with the largest id of the vocabulary.
FullTokens(b, n, vocab_size, dev) == Tensor(<<b, n>>, dev, LAMBDA i : vocab_size - 1)

Configs ==
    [vocab : 1 .. MaxVocab, d_model : 1 .. MaxDModel, N : 0 .. MaxLayers,
     heads : 1 .. MaxHeads]

\* The arguments of a layer or attention constructor: d_model and heads only.
LayerConfigs == {c \in Configs : c.vocab = 1 /\ c.N = 0}

\* Attention and feed-forward sublayers whose last projection has zero
\* weights and bias, so that each outputs the zero tensor.
ZeroLinear(lin) == [cls |-> "Linear", inf |-> lin.inf, outf |-> lin.outf, zero |-> TRUE]

ZeroSublayers(layer) ==
    [layer EXCEPT !.attn.out = ZeroLinear(@), !.ff.linear2 = ZeroLinear(@)]

ModelCall(fn, c, x, trg, flags) ==
    [fn |-> fn, x |-> x, trg |-> trg, args |-> c, flags |-> flags]

NoFlags == [zeroed |-> FALSE, training |-> TRUE]

\* MultiHeadAttention(d_model, heads), called directly.
NewMultiHeadAttention ==
    /\ call.fn = "none"
    /\ \E c \in LayerConfigs :
           LET r == MultiHeadAttention_init(c.d_model, c.heads)
           IN /\ call' = ModelCall("MultiHeadAttention", c, NoTensor, NoTensor, NoFlags)
              /\ outcome' = r.ret
              /\ objs' = r.made
              /\ UNCHANGED <<device, xafter, pemod, trace, ncalls>>

\* DecoderLayer(d_model, heads), called directly.
NewDecoderLayer ==
    /\ call.fn = "none"
    /\ \E c \in LayerConfigs :
           LET r == DecoderLayer_init(c.d_model, c.heads)
           IN /\ call' = ModelCall("DecoderLayer", c, NoTensor, NoTensor, NoFlags)
              /\ outcome' = r.ret
              /\ objs' = r.made
              /\ UNCHANGED <<device, xafter, pemod, trace, ncalls>>

\* Transformer(vocab_size, d_model, num_layers, heads)
NewTransformer ==
    /\ call.fn = "none"
    /\ \E c \in Configs :
           LET r == Transformer_init(c.vocab, c.d_model, c.N, c.heads, device)
           IN /\ call' = ModelCall("Transformer", c, NoTensor, NoTensor, NoFlags)
              /\ outcome' = r.ret
              /\ objs' = r.made
              /\ UNCHANGED <<device, xafter, pemod, trace, ncalls>>

\* A script that constructs a module and, when the constructor returns, calls
\* it: r is the constructor's result, fwd the call on the object built.
Script(fn, c, x, trg, flags, r, fwd(_)) ==
    /\ call' = ModelCall(fn, c, x, trg, flags)
    /\ outcome' = IF r.ret.kind = "raise" THEN r.ret ELSE fwd(r.self).ret
    /\ trace' = IF r.ret.kind = "raise" THEN <<>> ELSE fwd(r.self).log
    /\ objs' = r.made
    /\ UNCHANGED <<device, xafter, pemod, ncalls>>

\* layer = EncoderLayer(d_model, heads); optionally zero the sublayers and
\* switch to evaluation mode; layer(x, mask).
RunEncoderLayer ==
    /\ call.fn = "none"
    /\ \E c \in LayerConfigs, b \in 1 .. MaxBatch, n \in 1 .. MaxLen, dv \in CallerDevs,
          zeroed \in BOOLEAN, training \in BOOLEAN, masked \in BOOLEAN :
              Script("EncoderLayer.forward", c,
                     Act(<<b, n, c.d_model>>, dv, <<Term("x", Zero)>>),
                     IF masked THEN PaddingMaskValue(FullTokens(b, n, 2, dv)) ELSE NoTensor,
                     [zeroed |-> zeroed, training |-> training],
                     EncoderLayer_init(c.d_model, c.heads),
                     LAMBDA self :
                         EncoderLayer_forward(
                             IF zeroed THEN ZeroSublayers(self) ELSE self,
                             Act(<<b, n, c.d_model>>, dv, <<Term("x", Zero)>>),
                             IF masked THEN PaddingMaskValue(FullTokens(b, n, 2, dv))
                             ELSE NoTensor,
                             training))

\* enc = Encoder(vocab_size, d_model, N, heads); enc.eval();
\* enc(src, create_padding_mask(src))
RunEncoder ==
    /\ call.fn = "none"
    /\ \E c \in Configs, b \in 1 .. MaxBatch, n \in 1 .. MaxLen, dv \in CallerDevs :
           Script("Encoder.forward", c, FullTokens(b, n, c.vocab, dv), NoTensor, NoFlags,
                  Encoder_init(c.vocab, c.d_model, c.N, c.heads, device),
                  LAMBDA self :
                      Encoder_forward(self, FullTokens(b, n, c.vocab, dv),
                                      PaddingMaskValue(FullTokens(b, n, c.vocab, dv)), FALSE))

\* dec = Decoder(vocab_size, d_model, N, heads); dec.eval();
\* dec(trg, e_outputs, create_padding_mask(trg), create_look_ahead_mask(trg))
\* on an encoder output of the shape of the target.
RunDecoder ==
    /\ call.fn = "none"
    /\ \E c \in Configs, b \in 1 .. MaxBatch, n \in 1 .. MaxLen, dv \in CallerDevs :
           Script("Decoder.forward", c, NoTensor, FullTokens(b, n, c.vocab, dv), NoFlags,
                  Decoder_init(c.vocab, c.d_model, c.N, c.heads, device),
                  LAMBDA self :
                      ThenF(Lift(create_look_ahead_mask(FullTokens(b, n, c.vocab, dv),
                                                        device).ret),
                            LAMBDA trg_mask :
                      Decoder_forward(self, FullTokens(b, n, c.vocab, dv),
                                      Act(<<b, n, c.d_model>>, dv, <<Term("e", Zero)>>),
                                      PaddingMaskValue(FullTokens(b, n, c.vocab, dv)),
                                      trg_mask, FALSE)))

\* model = Transformer(vocab_size, d_model, num_layers, heads); model.eval();
\* model(src, trg, create_padding_mask(src), create_look_ahead_mask(trg))
RunTransformer ==
    /\ call.fn = "none"
    /\ \E c \in Configs, b \in 1 .. MaxBatch, sn \in 1 .. MaxLen, tn \in 1 .. MaxLen,
          dv \in CallerDevs :
           Script("Transformer.forward", c, FullTokens(b, sn, c.vocab, dv),
                  FullTokens(b, tn, c.vocab, dv), NoFlags,
                  Transformer_init(c.vocab, c.d_model, c.N, c.heads, device),
                  LAMBDA self :
                      ThenF(Lift(create_look_ahead_mask(FullTokens(b, tn, c.vocab, dv),
                                                        device).ret),
                            LAMBDA trg_mask :
                      Transformer_forward(self, FullTokens(b, sn, c.vocab, dv),
                                          FullTokens(b, tn, c.vocab, dv),
                                          PaddingMaskValue(FullTokens(b, sn, c.vocab, dv)),
                                          trg_mask, FALSE)))

NextModel ==
    \/ NewMultiHeadAttention
    \/ NewDecoderLayer
    \/ NewTransformer
    \/ RunEncoderLayer
    \/ RunEncoder
    \/ RunDecoder
    \/ RunTransformer
    \/ Finish

SpecModel == Init /\ [][NextModel]_vars

NextMask == CallPaddingMask \/ CallLookAheadMask \/ Finish

SpecMask == Init /\ [][NextMask]_vars

\* ------------------------------------------------------------ mask claims
Bit(b) == IF b THEN 1 ELSE 0

\* What the look-ahead claim says of the returned tensor for input x.
LookAheadAsClaimed(x) ==
    LET b == x.shape[1]
        n == x.shape[2]
    IN /\ outcome.kind = "ok"
       /\ outcome.val.shape = <<b, 1, n, n>>
       /\ \A k \in 0 .. (b - 1), j \in 0 .. (n - 1), i \in 0 .. (n - 1) :
              outcome.val.data[<<k, 0, j, i>>] = Bit(i > j \/ x.data[<<k, i>>] = 0)

\* C3 as stated: for every token batch, create_look_ahead_mask returns the
\* [batch, 1, seq_len, seq_len] tensor whose entry (b, j, i) is 1 iff i > j
\* or tokens[b, i] = 0.
C3_AsStated ==
    call.fn = "create_look_ahead_mask" => LookAheadAsClaimed(call.x)

\* C3 amended: the same, for every token batch that lives on the device the
\* module selected (line 18); the triangular mask is moved there (line 99)
\* before it is combined with the padding mask.
C3_LookAheadMask ==
    (call.fn = "create_look_ahead_mask" /\ call.x.dev = device)
        => LookAheadAsClaimed(call.x)

C3_Witness ==
    /\ call.fn = "create_look_ahead_mask"
    /\ call.x.dev = device
    /\ call.x.shape = <<2, 3>>
    /\ call.x.data[<<0, 0>>] = 0
    /\ call.x.data[<<1, 0>>] = 1
    /\ outcome.kind = "ok"
    /\ outcome.val.data[<<0, 0, 2, 0>>] = 1
    /\ outcome.val.data[<<1, 0, 2, 0>>] = 0
    /\ outcome.val.data[<<1, 0, 0, 2>>] = 1

\* C4: for every token batch, create_padding_mask returns the
\* [batch, 1, 1, seq_len] tensor of 0/1 whose entry (i, j) is 1 iff
\* tokens[i, j] = 0, and the token tensor is unchanged by the call.
C4_PaddingMask ==
    call.fn = "create_padding_mask" =>
        LET b == call.x.shape[1]
            n == call.x.shape[2]
        IN /\ outcome.kind = "ok"
           /\ outcome.val.shape = <<b, 1, 1, n>>
           /\ \A i \in 0 .. (b - 1), j \in 0 .. (n - 1) :
                  outcome.val.data[<<i, 0, 0, j>>] = Bit(call.x.data[<<i, j>>] = 0)
           /\ xafter = call.x

C4_Witness ==
    /\ call.fn = "create_padding_mask"
    /\ call.x.shape = <<2, 3>>
    /\ call.x.data[<<0, 1>>] = 0
    /\ call.x.data[<<1, 1>>] = 1
    /\ outcome.kind = "ok"
    /\ outcome.val.data[<<0, 0, 0, 1>>] = 1
    /\ outcome.val.data[<<1, 0, 0, 1>>] = 0
    /\ xafter = call.x


\* --------------------------------------------- PositionalEncoding claims
\* C5 as stated: a forward call whose sequence length exceeds max_len is
\* rejected by an explicit bounds check, as a sequence-length error.
C5_AsStated ==
    (call.fn = "PositionalEncoding.forward" /\ call.x.shape[2] > pemod.max_len)
        => (outcome.kind = "raise" /\ outcome.exc = "SequenceLengthExceeded")

\* C6 as stated: a forward call with 1 <= len <= max_len succeeds, returns a
\* tensor of the shape of x, and adds row p of the table at position p.
C6_AsStated ==
    (call.fn = "PositionalEncoding.forward" /\ call.x.shape[2] <= pemod.max_len)
        => /\ outcome.kind = "ok"
           /\ outcome.val.shape = call.x.shape
           /\ \A i \in DOMAIN call.x.data :
                  outcome.val.data[i].added = pemod.pe0.data[<<0, i[2], i[3]>>]

\* C10: after any sequence of forward calls, failed or not, the table of the
\* module equals the table computed at construction.
C10_TableImmutable ==
    pemod.state = "built" => pemod.self.pe = pemod.pe0

C10_Witness ==
    /\ pemod.state = "built"
    /\ ncalls = 2
    /\ call.fn = "PositionalEncoding.forward"
    /\ pemod.max_len = 2
    /\ pemod.d_model = 4
    /\ call.x.shape = <<2, 3, 4>>
    /\ pemod.self.pe = pemod.pe0
    /\ pemod.self.pe.data[<<0, 1, 3>>] = <<PEEntry(1, 3)>>
\* ------------------------------------------------------------ model claims
Divides == call.args.d_model % call.args.heads = 0

\* C1 as stated: with d_model % heads = 0 and sequences within the
\* positional table, construction succeeds and Transformer.forward returns a
\* tensor of shape [batch, target_len, vocab_size].
C1_AsStated ==
    (call.fn = "Transformer.forward" /\ Divides /\ call.x.dev = device)
        => /\ outcome.kind = "ok"
           /\ outcome.val.shape = <<call.trg.shape[1], call.trg.shape[2], call.args.vocab>>

\* C2 as stated: with d_model % heads # 0, MultiHeadAttention(d_model, heads)
\* and Transformer(vocab_size, d_model, num_layers, heads) are rejected by the
\* divisibility check of the attention constructor (line 52).
C2_AsStated ==
    (call.fn \in {"MultiHeadAttention", "Transformer"} /\ ~Divides)
        => (outcome.kind = "raise" /\ outcome.exc = "AssertionError" /\ outcome.line = 52)

\* C7 as stated: with zeroed attention and feed-forward sublayers and
\* dropout disabled, EncoderLayer.forward(x, mask) returns x.
C7_AsStated ==
    (call.fn = "EncoderLayer.forward" /\ call.flags.zeroed /\ ~call.flags.training
     /\ Divides)
        => (outcome.kind = "ok" /\ outcome.val = call.x)

\* The stack events of a forward call, without the attention calls.
RECURSIVE StackEvents(_)
StackEvents(l) ==
    IF l = <<>> THEN <<>>
    ELSE IF Head(l).ev = "sdpa" THEN StackEvents(Tail(l))
    ELSE <<Head(l)>> \o StackEvents(Tail(l))

InOrder(n) ==
    <<Event("embed", 0, 0), Event("pe", 0, 0)>>
        \o [i \in 1 .. n |-> Event("layer", i - 1, 0)]
        \o <<Event("norm", 0, 0)>>

\* C8 as stated: every Encoder.forward and Decoder.forward call embeds, adds
\* the positional encoding, applies layers[0] .. layers[N-1] once each in that
\* order, then the final normalization once.
C8_AsStated ==
    (call.fn \in {"Encoder.forward", "Decoder.forward"} /\ Divides
     /\ (call.fn = "Encoder.forward" => call.x.dev = device)
     /\ (call.fn = "Decoder.forward" => call.trg.dev = device))
        => (outcome.kind = "ok" /\ StackEvents(trace) = InOrder(call.args.N))

====
